---- MODULE Spec2Model ----
(***************************************************************************)
(* Model of whos-on-call-v3.py: one run of the script that reads the       *)
(* current PagerDuty on-calls of one escalation policy, picks the primary  *)
(* and the secondary, looks both up in the Slack user list and writes the  *)
(* two Slack ids into a Slack usergroup.                                   *)
(*                                                                         *)
(* The run is a single thread; pc is its position in the script.  Every    *)
(* HTTP call is split in two steps (the request is sent, the response is   *)
(* received and handled) so that the order of requests and the code run    *)
(* on each response are both visible.                                      *)
(***************************************************************************)
EXTENDS Integers, Sequences, FiniteSets, TLC

VARIABLES env, pc, exitCode, failure, diag, requests, r,
          possible_oncalls, primary, secondary,
          users, next_cursor, got_all_users,
          primary_id, secondary_id

vars == <<env, pc, exitCode, failure, diag, requests, r,
          possible_oncalls, primary, secondary,
          users, next_cursor, got_all_users,
          primary_id, secondary_id>>

(***************************************************************************)
(* Bounds of the model.                                                    *)
(***************************************************************************)
MaxOncalls == 2     \* on-call entries in one PagerDuty response
MaxPages == 2       \* users.list requests the model follows
MaxReduceLen == 3   \* on-call records given to the reducer alone
MaxMembers == 2     \* members given to get_slack_id alone

(***************************************************************************)
(* Values.                                                                 *)
(***************************************************************************)
\* os.getenv gives None ("unset") or a string, empty or not.
EnvValues == {"unset", "empty", "set"}
EnvNames == {"PAGERDUTY_APIKEY", "PAGERDUTY_ONCALL_ESCALATION",
             "SLACK_APIKEY", "SLACK_USERGROUP_ID"}

\* Python truthiness of an environment value: None and "" are falsy.
Truthy(v) == v = "set"

\* Python's None against a Slack id.
None == [some |-> FALSE, id |-> ""]
Some(i) == [some |-> TRUE, id |-> i]

\* '%s' applied to an id or to None.
Fmt(x) == IF x.some THEN x.id ELSE "None"

Names == {"A", "B"}
Emails == {"a@x", "b@x"}
Absent == "<absent>"       \* a key that is not in a profile

\* ISO8601 strings, as sequences of digits; Python compares them lexically.
StartStamps == {<<0>>, <<0, 1>>, <<1>>}
PipelineStarts == {<<0>>, <<0, 1>>}
EndStamp == <<9>>

\* Slack ids, by position in the directory.
IdTable == <<"U1", "U2", "U3", "U4", "U5", "U6", "U7", "U8">>

RECURSIVE LexLess(_, _)
\* a < b for Python strings: first differing character decides, a proper
\* prefix is smaller.
LexLess(a, b) ==
    IF b = <<>> THEN FALSE
    ELSE IF a = <<>> THEN TRUE
    ELSE IF Head(a) # Head(b) THEN Head(a) < Head(b)
    ELSE LexLess(Tail(a), Tail(b))

\* Sequences over S of length at most n.
SeqUpTo(S, n) == UNION {[1..k -> S] : k \in 0..n}

\* A raw entry of the PagerDuty 'oncalls' array.
RawEntry(n, e, l, s) ==
    [user |-> [name |-> n, email |-> e], escalation_level |-> l,
     start |-> s, end |-> EndStamp]

TransformEntry(entry) ==
    [name |-> entry.user.name, email |-> entry.user.email,
     level |-> entry.escalation_level, start |-> entry.start,
     end |-> entry.end]

\* transform_pagerduty_results: same entries, same order, fewer fields.
transform_pagerduty_results(results) ==
    [i \in 1..Len(results.oncalls) |-> TransformEntry(results.oncalls[i])]

RECURSIVE FilterLevel(_, _)
\* [user for user in possible_oncalls if user['level'] == lvl]
FilterLevel(list, lvl) ==
    IF list = <<>> THEN <<>>
    ELSE IF Head(list).level = lvl
         THEN <<Head(list)>> \o FilterLevel(Tail(list), lvl)
         ELSE FilterLevel(Tail(list), lvl)

RECURSIVE InsertByStart(_, _)
\* x put into the sorted list behind every element whose start is not
\* greater: equal keys keep their input order, as list.sort does.
InsertByStart(x, sorted) ==
    IF sorted = <<>> THEN <<x>>
    ELSE IF LexLess(x.start, Head(sorted).start)
         THEN <<x>> \o sorted
         ELSE <<Head(sorted)>> \o InsertByStart(x, Tail(sorted))

RECURSIVE SortFrom(_, _)
SortFrom(list, sorted) ==
    IF list = <<>> THEN sorted
    ELSE SortFrom(Tail(list), InsertByStart(Head(list), sorted))

\* list.sort(key=lambda user: user['start']): stable, ascending.
SortByStart(list) == SortFrom(list, <<>>)

SelectLatest_TakesFirst(list) ==
    IF Len(list) > 1 THEN <<SortByStart(list)[1]>> ELSE list

\* if len(x) > 1: x.sort(key=start); x = [x[len(x) - 1]]
SelectLatest(list) ==
    IF Len(list) > 1 THEN <<SortByStart(list)[Len(list)]>> ELSE list

\* A member of the Slack users.list.
Member(i, rn, em, del, res) ==
    [id |-> i, profile |-> [real_name |-> rn, email |-> em],
     deleted |-> del, is_restricted |-> res]

name_match(member, person) ==
    member.profile.real_name # Absent /\ person.name = member.profile.real_name

email_match(member, person) ==
    member.profile.email # Absent /\ person.email = member.profile.email

RECURSIVE get_slack_id_IgnoresDeleted(_, _)
get_slack_id_IgnoresDeleted(members, person) ==
    IF members = <<>> THEN None
    ELSE IF ~Head(members).is_restricted
            /\ (name_match(Head(members), person)
                \/ email_match(Head(members), person))
         THEN Some(Head(members).id)
         ELSE get_slack_id_IgnoresDeleted(Tail(members), person)

RECURSIVE get_slack_id(_, _)
\* The scan of the members in order, the first hit returned.
get_slack_id(members, person) ==
    IF members = <<>> THEN None
    ELSE IF ~Head(members).deleted /\ ~Head(members).is_restricted
            /\ (name_match(Head(members), person)
                \/ email_match(Head(members), person))
         THEN Some(Head(members).id)
         ELSE get_slack_id(Tail(members), person)

(***************************************************************************)
(* Requests and responses.                                                 *)
(***************************************************************************)
Request(k, c, u) == [kind |-> k, cursor |-> c, users |-> u]

NumRequests(k) == Cardinality({i \in 1..Len(requests) : requests[i].kind = k})

\* response_metadata: not in the response, the empty string, a dict with
\* next_cursor, or a dict without it.
Cursors == {"", "c1"}
Metas == {[kind |-> "absent", next_cursor |-> ""],
          [kind |-> "str", next_cursor |-> ""],
          [kind |-> "nocursor", next_cursor |-> ""]}
         \cup {[kind |-> "dict", next_cursor |-> c] : c \in Cursors}

Response(st, oc, mo, hm, me, mt) ==
    [status |-> st, oncalls |-> oc, more |-> mo,
     has_members |-> hm, members |-> me, meta |-> mt]

NoMeta == [kind |-> "absent", next_cursor |-> ""]
NoResponse == Response("none", <<>>, FALSE, FALSE, <<>>, NoMeta)

\* status "error": the transport failed or the body is not JSON;
\* status "malformed": JSON in which an on-call entry lacks a key.
PipelineEntries ==
    {RawEntry(p[1], p[2], l, s) :
        p \in {<<"A", "a@x">>, <<"B", "b@x">>}, l \in {1, 2},
        s \in PipelineStarts}

OncallResponses ==
    {Response(st, oc, mo, FALSE, <<>>, NoMeta) :
        st \in {"ok"}, oc \in SeqUpTo(PipelineEntries, MaxOncalls),
        mo \in BOOLEAN}
    \cup {Response("malformed", <<>>, mo, FALSE, <<>>, NoMeta) : mo \in BOOLEAN}
    \cup {Response("error", <<>>, FALSE, FALSE, <<>>, NoMeta)}

\* The members a page can carry: none, or one active member; their ids
\* follow the directory position.
PageProfiles == {<<>>, <<<<"A", "a@x">>>>, <<<<"B", "b@x">>>>}

PageMembers(first) ==
    {[i \in 1..Len(q) |->
        Member(IdTable[first + i], q[i][1], q[i][2], FALSE, FALSE)] :
     q \in PageProfiles}

UsersResponses(first) ==
    {Response("ok", <<>>, FALSE, TRUE, me, mt) :
        me \in PageMembers(first), mt \in Metas}
    \cup {Response("ok", <<>>, FALSE, FALSE, <<>>, mt) : mt \in Metas}
    \cup {Response("error", <<>>, FALSE, FALSE, <<>>, NoMeta)}

UpdateResponses ==
    {Response(st, <<>>, FALSE, FALSE, <<>>, NoMeta) : st \in {"ok", "error"}}

\* The names the "Missing environment variable" message prints.
MissingEnvMessageNames == {"PAGERDUTY_APIKEY", "SLACK_APIKEY", "SLACK_USERGROUP_ID"}

(***************************************************************************)
(* The run ends: sys.exit(code), an uncaught exception (exit status 1) or  *)
(* the end of the script (exit status 0).                                  *)
(***************************************************************************)
Exit(code, why) ==
    /\ pc' = "done"
    /\ exitCode' = code
    /\ failure' = why

Running(next) ==
    /\ pc' = next
    /\ UNCHANGED <<exitCode, failure>>

TransportError_RetriesUsers ==
    IF pc = "wait_users" THEN Running("users_loop") ELSE Exit(1, "transport")

\* requests.get, requests.post or r.json() raises; nothing catches it.
TransportError == Exit(1, "transport")

LoopExits_Always == TRUE

\* 'while got_all_users is False' is left.
LoopExits == got_all_users = TRUE

(***************************************************************************)
(* Initial state: the interpreter starts with some environment.            *)
(***************************************************************************)
Fresh(e, at) ==
    /\ env = e
    /\ pc = at
    /\ exitCode = -1
    /\ failure = "none"
    /\ diag = {}
    /\ requests = <<>>
    /\ r = NoResponse
    /\ possible_oncalls = <<>>
    /\ primary = <<>>
    /\ secondary = <<>>
    /\ users = <<>>
    /\ next_cursor = ""
    /\ got_all_users = FALSE
    /\ primary_id = None
    /\ secondary_id = None

Init == \E e \in [EnvNames -> EnvValues] : Fresh(e, "load")

(***************************************************************************)
(* Lines 17-27: the module-level configuration.  The concatenation of      *)
(* line 20 raises TypeError when the escalation policy is unset.           *)
(***************************************************************************)
LoadModule ==
    /\ pc = "load"
    /\ IF env["PAGERDUTY_ONCALL_ESCALATION"] = "unset"
       THEN Exit(1, "TypeError")
       ELSE Running("main")
    /\ UNCHANGED <<env, diag, requests, r, possible_oncalls, primary,
                   secondary, users, next_cursor, got_all_users,
                   primary_id, secondary_id>>

(***************************************************************************)
(* Lines 56-61: the environment check.                                     *)
(***************************************************************************)
CheckEnv ==
    /\ pc = "main"
    /\ IF \E n \in EnvNames : ~Truthy(env[n])
       THEN /\ diag' = diag \cup {"missing_env"}
            /\ Exit(1, "config")
       ELSE /\ diag' = diag
            /\ Running("get_oncall")
    /\ UNCHANGED <<env, requests, r, possible_oncalls, primary,
                   secondary, users, next_cursor, got_all_users,
                   primary_id, secondary_id>>

(***************************************************************************)
(* Lines 66-71: the PagerDuty request is sent.                             *)
(***************************************************************************)
SendOncall ==
    /\ pc = "get_oncall"
    /\ requests' = Append(requests, Request("oncall", "", <<>>))
    /\ Running("wait_oncall")
    /\ UNCHANGED <<env, diag, r, possible_oncalls, primary,
                   secondary, users, next_cursor, got_all_users,
                   primary_id, secondary_id>>

RecvOncall_IgnoresMore ==
    /\ pc = "wait_oncall"
    /\ \E resp \in OncallResponses :
        /\ r' = resp
        /\ IF resp.status = "error"
           THEN /\ TransportError
                /\ UNCHANGED <<possible_oncalls, diag>>
           ELSE IF resp.status = "malformed"
           THEN /\ Exit(1, "KeyError")
                /\ UNCHANGED <<possible_oncalls, diag>>
           ELSE /\ possible_oncalls' = transform_pagerduty_results(resp)
                /\ diag' = diag
                /\ Running("reduce")
    /\ UNCHANGED <<env, requests, primary, secondary, users,
                   next_cursor, got_all_users, primary_id, secondary_id>>

(***************************************************************************)
(* Lines 67-83: the PagerDuty response is decoded, transformed, and its    *)
(* 'more' flag is tested.                                                  *)
(***************************************************************************)
RecvOncall ==
    /\ pc = "wait_oncall"
    /\ \E resp \in OncallResponses :
        /\ r' = resp
        /\ IF resp.status = "error"
           THEN /\ TransportError
                /\ UNCHANGED <<possible_oncalls, diag>>
           ELSE IF resp.status = "malformed"
           THEN /\ Exit(1, "KeyError")
                /\ UNCHANGED <<possible_oncalls, diag>>
           ELSE /\ possible_oncalls' = transform_pagerduty_results(resp)
                /\ IF resp.more
                   THEN /\ diag' = diag \cup {"overflow"}
                        /\ Exit(1, "overflow")
                   ELSE /\ diag' = diag
                        /\ Running("reduce")
    /\ UNCHANGED <<env, requests, primary, secondary, users,
                   next_cursor, got_all_users, primary_id, secondary_id>>

(***************************************************************************)
(* Lines 85-109: primary and secondary are selected, and the variables of  *)
(* the users loop are set.                                                 *)
(***************************************************************************)
Reduce ==
    /\ pc = "reduce"
    /\ primary' = SelectLatest(FilterLevel(possible_oncalls, 1))
    /\ secondary' = SelectLatest(FilterLevel(possible_oncalls, 2))
    /\ got_all_users' = FALSE
    /\ users' = <<>>
    /\ next_cursor' = ""
    /\ Running("users_loop")
    /\ UNCHANGED <<env, diag, requests, r, possible_oncalls,
                   primary_id, secondary_id>>

(***************************************************************************)
(* Lines 110-111: the loop test and the users.list request.                *)
(***************************************************************************)
SendUsers ==
    /\ pc = "users_loop"
    /\ ~LoopExits
    /\ NumRequests("users") < MaxPages
    /\ requests' = Append(requests, Request("users", next_cursor, <<>>))
    /\ Running("wait_users")
    /\ UNCHANGED <<env, diag, r, possible_oncalls, primary, secondary,
                   users, next_cursor, got_all_users, primary_id,
                   secondary_id>>

(***************************************************************************)
(* Lines 111-119: one users.list response is decoded and handled.          *)
(***************************************************************************)
RecvUsers ==
    /\ pc = "wait_users"
    /\ \E resp \in UsersResponses(Len(users)) :
        /\ r' = resp
        /\ IF resp.status = "error"
           THEN /\ TransportError
                /\ UNCHANGED <<users, next_cursor, got_all_users>>
           ELSE /\ users' = IF resp.has_members THEN users \o resp.members
                                                ELSE users
                /\ IF resp.meta.kind \in {"dict", "nocursor"}
                   THEN IF resp.meta.kind = "nocursor"
                        THEN /\ Exit(1, "KeyError")
                             /\ UNCHANGED <<next_cursor, got_all_users>>
                        ELSE /\ next_cursor' = resp.meta.next_cursor
                             /\ UNCHANGED got_all_users
                             /\ Running("users_loop")
                   ELSE /\ got_all_users' = TRUE
                        /\ UNCHANGED next_cursor
                        /\ Running("users_loop")
    /\ UNCHANGED <<env, diag, requests, possible_oncalls, primary,
                   secondary, primary_id, secondary_id>>

(***************************************************************************)
(* Lines 121-137: both persons are looked up in the user list.             *)
(* primary[0] raises IndexError on an empty primary list, and users[0] on  *)
(* an empty user list.                                                     *)
(***************************************************************************)
Resolve ==
    /\ pc = "users_loop"
    /\ LoopExits
    /\ IF primary = <<>>
       THEN /\ Exit(1, "IndexError_primary")
            /\ UNCHANGED <<primary_id, secondary_id, diag>>
       ELSE /\ primary_id' = get_slack_id(users, primary[1])
            /\ IF users = <<>>
               THEN /\ Exit(1, "IndexError_users")
                    /\ UNCHANGED <<secondary_id, diag>>
               ELSE /\ secondary_id' =
                          IF Len(secondary) > 0
                          THEN get_slack_id(users, secondary[1])
                          ELSE None
                    /\ diag' = IF ~primary_id'.some \/ ~secondary_id'.some
                               THEN diag \cup {"unresolved"}
                               ELSE diag
                    /\ Running("post_update")
    /\ UNCHANGED <<env, requests, r, possible_oncalls, primary, secondary,
                   users, next_cursor, got_all_users>>

(***************************************************************************)
(* Lines 140-142: the usergroups.users.update request is sent; its 'users' *)
(* parameter is '%s,%s' % (primary, secondary), two comma-separated        *)
(* entries.                                                                *)
(***************************************************************************)
SendUpdate ==
    /\ pc = "post_update"
    /\ requests' = Append(requests,
                     Request("update", "", <<Fmt(primary_id), Fmt(secondary_id)>>))
    /\ Running("wait_update")
    /\ UNCHANGED <<env, diag, r, possible_oncalls, primary, secondary,
                   users, next_cursor, got_all_users, primary_id,
                   secondary_id>>

(***************************************************************************)
(* Lines 142-143: the response of the update is decoded and printed; the   *)
(* script ends.                                                            *)
(***************************************************************************)
RecvUpdate ==
    /\ pc = "wait_update"
    /\ \E resp \in UpdateResponses :
        /\ r' = resp
        /\ IF resp.status = "error"
           THEN TransportError
           ELSE Exit(0, "none")
    /\ UNCHANGED <<env, diag, requests, possible_oncalls, primary,
                   secondary, users, next_cursor, got_all_users,
                   primary_id, secondary_id>>

Next ==
    \/ LoadModule
    \/ CheckEnv
    \/ SendOncall
    \/ RecvOncall
    \/ Reduce
    \/ SendUsers
    \/ RecvUsers
    \/ Resolve
    \/ SendUpdate
    \/ RecvUpdate

Spec == Init /\ [][Next]_vars

(***************************************************************************)
(* The reducer alone: the run stands before line 85 with any list of       *)
(* on-call records.                                                        *)
(***************************************************************************)
AllSet == [n \in EnvNames |-> "set"]

ReduceEntries ==
    {RawEntry(p[1], p[2], l, s) :
        p \in {<<"A", "a@x">>, <<"B", "b@x">>}, l \in {1, 2, 3},
        s \in StartStamps}

InitReduce ==
    \E oc \in SeqUpTo(ReduceEntries, MaxReduceLen) :
        /\ env = AllSet
        /\ pc = "reduce"
        /\ exitCode = -1
        /\ failure = "none"
        /\ diag = {}
        /\ requests = <<Request("oncall", "", <<>>)>>
        /\ r = Response("ok", oc, FALSE, FALSE, <<>>, NoMeta)
        /\ possible_oncalls = transform_pagerduty_results(r)
        /\ primary = <<>>
        /\ secondary = <<>>
        /\ users = <<>>
        /\ next_cursor = ""
        /\ got_all_users = FALSE
        /\ primary_id = None
        /\ secondary_id = None

NextReduce == Reduce

SpecReduce == InitReduce /\ [][NextReduce]_vars

(***************************************************************************)
(* The lookup alone: the run stands before line 121 with any user list,    *)
(* fetched in one page.                                                    *)
(***************************************************************************)
ProfileNames == Names \cup {Absent}
ProfileEmails == Emails \cup {Absent}

Directories ==
    {[i \in 1..Len(q) |-> Member(IdTable[i], q[i][1], q[i][2], q[i][3], q[i][4])] :
     q \in SeqUpTo(ProfileNames \X ProfileEmails \X BOOLEAN \X BOOLEAN,
                   MaxMembers)}

PersonA == TransformEntry(RawEntry("A", "a@x", 1, <<0>>))
PersonB == TransformEntry(RawEntry("B", "b@x", 2, <<0>>))

InitResolve ==
    \E dir \in Directories, sec \in {<<>>, <<PersonB>>} :
        /\ env = AllSet
        /\ pc = "users_loop"
        /\ exitCode = -1
        /\ failure = "none"
        /\ diag = {}
        /\ requests = <<Request("oncall", "", <<>>), Request("users", "", <<>>)>>
        /\ r = Response("ok", <<>>, FALSE, TRUE, dir, NoMeta)
        /\ possible_oncalls = <<PersonA>> \o sec
        /\ primary = <<PersonA>>
        /\ secondary = sec
        /\ users = dir
        /\ next_cursor = ""
        /\ got_all_users = TRUE
        /\ primary_id = None
        /\ secondary_id = None

NextResolve == Resolve

SpecResolve == InitResolve /\ [][NextResolve]_vars

(***************************************************************************)
(* Properties.                                                             *)
(***************************************************************************)
LastRequest == requests[Len(requests)]

\* The sequences with the elements of s in any order.
Perms(s) ==
    {[i \in 1..Len(s) |-> s[f[i]]] : f \in Permutations(1..Len(s))}

\* No record of the list starts later than rec.
HasGreatestStart(rec, list) ==
    \A i \in 1..Len(list) : ~LexLess(rec.start, list[i].start)

Chosen(l) == IF l = 1 THEN primary ELSE secondary

Reduced == pc = "users_loop" /\ NumRequests("users") = 0

\* C4, as claimed: of a non-empty list of records of one level the reducer
\* returns exactly one record, it has the greatest start, and it is the same
\* record for every order of the input, ties in the greatest start included.
C4_AnyOrderSameRecord ==
    Reduced =>
        \A l \in {1, 2} :
            FilterLevel(possible_oncalls, l) # <<>> =>
                /\ Len(Chosen(l)) = 1
                /\ \E i \in 1..Len(possible_oncalls) :
                       possible_oncalls[i] = Chosen(l)[1]
                /\ Chosen(l)[1].level = l
                /\ HasGreatestStart(Chosen(l)[1], FilterLevel(possible_oncalls, l))
                /\ \A q \in Perms(possible_oncalls) :
                       SelectLatest(FilterLevel(q, l)) = Chosen(l)

\* C4, amended: exactly one record is returned, it has the greatest start of
\* the list, and among the records with that start it is the last in input
\* order; over all orders of the input the start of the result is the same,
\* and the record is the same when the records with the greatest start are
\* all equal.
C4_LatestStartLastInInput ==
    Reduced =>
        \A l \in {1, 2} :
            LET lvl == FilterLevel(possible_oncalls, l)
                top == {i \in 1..Len(lvl) : HasGreatestStart(lvl[i], lvl)}
            IN  lvl # <<>> =>
                /\ Len(Chosen(l)) = 1
                /\ Chosen(l)[1].level = l
                /\ HasGreatestStart(Chosen(l)[1], lvl)
                /\ \E i \in top :
                       /\ lvl[i] = Chosen(l)[1]
                       /\ \A j \in top : j <= i
                /\ \A q \in Perms(possible_oncalls) :
                       LET other == SelectLatest(FilterLevel(q, l))
                       IN  /\ Len(other) = 1
                           /\ other[1].start = Chosen(l)[1].start
                           /\ (\A i, j \in top : lvl[i] = lvl[j])
                                  => other = Chosen(l)

\* C4, witness: two level-1 records of different persons share the greatest
\* start, and the reducer has returned the later one in input order.
C4_Witness_Tie ==
    /\ Reduced
    /\ Len(possible_oncalls) = 3
    /\ \A i \in 1..3 : possible_oncalls[i].level = 1
    /\ possible_oncalls[1].start = <<1>>
    /\ possible_oncalls[2].start = <<0, 1>>
    /\ possible_oncalls[3].start = <<1>>
    /\ possible_oncalls[1].name # possible_oncalls[3].name
    /\ primary = <<possible_oncalls[3]>>

\* Member i of the list is eligible and matches the person by name or email.
Hit(members, person, i) ==
    /\ members[i].deleted = FALSE
    /\ members[i].is_restricted = FALSE
    /\ \/ members[i].profile.real_name = person.name
       \/ members[i].profile.email = person.email

FirstHitIs(members, person, res) ==
    IF \E i \in 1..Len(members) : Hit(members, person, i)
    THEN /\ res.some
         /\ \E i \in 1..Len(members) :
                /\ Hit(members, person, i)
                /\ \A j \in 1..(i - 1) : ~Hit(members, person, j)
                /\ res.id = members[i].id
    ELSE res = None

\* C5: get_slack_id returns the id of the first member in directory order
\* that is not deleted, not restricted and equal to the person in real name
\* or in email, and None when there is no such member.
C5_FirstEligibleMatch ==
    /\ (pc = "post_update" \/ failure = "IndexError_users")
           => FirstHitIs(users, primary[1], primary_id)
    /\ (pc = "post_update" /\ secondary # <<>>)
           => FirstHitIs(users, secondary[1], secondary_id)

\* C5, witness: the first member has the person's name and email but is
\* deleted, the second matches by name only and is returned.
C5_Witness_SkipsDeleted ==
    /\ pc = "post_update"
    /\ Len(users) = 2
    /\ users[1].deleted
    /\ users[1].profile.real_name = primary[1].name
    /\ users[1].profile.email = primary[1].email
    /\ users[2].profile.real_name = primary[1].name
    /\ users[2].profile.email # primary[1].email
    /\ primary_id = Some(users[2].id)

\* The last users.list response ends the directory: it has no
\* response_metadata dict, or an empty cursor, or the cursor just sent.
LastPageSeen ==
    /\ NumRequests("users") > 0
    /\ LastRequest.kind = "users"
    /\ r.status = "ok"
    /\ \/ r.meta.kind \in {"absent", "str"}
       \/ r.meta.kind = "dict" /\ r.meta.next_cursor = ""
       \/ r.meta.kind = "dict" /\ r.meta.next_cursor = LastRequest.cursor

\* C1: once a users.list response has no continuation cursor, an empty one
\* or the one just sent, the pagination loop is over and no further page is
\* requested.
C1_LoopStopsOnEmptyCursor ==
    (pc = "users_loop" /\ LastPageSeen) => got_all_users = TRUE

\* The entries of the 'users' parameter of an update request.
Entries(req) == {req.users[i] : i \in 1..Len(req.users)}

ResolvedIds ==
    (IF primary_id.some THEN {primary_id.id} ELSE {})
    \cup (IF secondary_id.some THEN {secondary_id.id} ELSE {})

\* C2: the member list of the update request is the primary id, plus the
\* secondary id exactly when there is a secondary; nothing stands in for a
\* missing secondary.
C2_MembersAreResolvedIds ==
    \A i \in 1..Len(requests) :
        (requests[i].kind = "update" /\ primary_id.some)
            => Entries(requests[i]) = ResolvedIds

\* C3: with no level-1 record among the fetched on-calls the run stops in
\* the reduction: no users.list request, no update request, and the run
\* does not get past the reduction other than by failing.
C3_EmptyPrimaryStopsAtReduce ==
    (r.status # "none" /\ FilterLevel(possible_oncalls, 1) = <<>>)
        => /\ NumRequests("users") = 0
           /\ NumRequests("update") = 0
           /\ pc \notin {"wait_users", "post_update", "wait_update"}
           /\ (pc = "done" => exitCode # 0)

\* C6: a PagerDuty response with 'more' set ends the run with a non-zero
\* exit, whatever its on-calls; the on-call request stays the only request.
C6_MoreAborts ==
    r.more =>
        /\ pc = "done"
        /\ exitCode # 0
        /\ requests = <<Request("oncall", "", <<>>)>>

\* C6, witness: the response had 'more' set and well-formed on-calls with a
\* primary, and the run has ended.
C6_Witness_MoreWithOncalls ==
    /\ r.more
    /\ r.status = "ok"
    /\ FilterLevel(possible_oncalls, 1) # <<>>
    /\ pc = "done"
    /\ "overflow" \in diag

MissingNames == {n \in EnvNames : ~Truthy(env[n])}

\* The configuration names the printed diagnostics mention.
DiagNames == IF "missing_env" \in diag THEN MissingEnvMessageNames ELSE {}

\* C7: with a mandatory configuration value missing the run ends with a
\* non-zero exit, before any request, and its diagnostic names every
\* missing value.
C7_MissingConfigNamed ==
    (MissingNames # {} /\ pc \notin {"load", "main"})
        => /\ pc = "done"
           /\ exitCode # 0
           /\ requests = <<>>
           /\ MissingNames \subseteq DiagNames

Unresolved(list) == list # <<>> /\ ~get_slack_id(users, list[1]).some

\* C8: when the directory is fetched and the primary or the secondary has
\* no eligible match in it, the run still sends exactly one update request
\* and ends with exit code 0 (a failed update response apart).
C8_UnresolvedNotFatal ==
    (/\ pc = "done"
     /\ got_all_users
     /\ primary # <<>>
     /\ Unresolved(primary) \/ Unresolved(secondary)
     /\ failure # "transport")
        => /\ exitCode = 0
           /\ NumRequests("update") = 1

\* C9: the requests go forward, each awaited before the next: one on-call
\* request first, then users.list requests, then at most one update request
\* as the last; the lookup starts after the last page only, and a run that
\* completes has sent exactly one update.
C9_ForwardOrder ==
    /\ \A i \in 1..Len(requests) : requests[i].kind = "oncall" <=> i = 1
    /\ \A i \in 1..Len(requests) :
           requests[i].kind = "update" => i = Len(requests)
    /\ pc \in {"load", "main", "get_oncall"} => requests = <<>>
    /\ pc = "wait_oncall" => Len(requests) = 1
    /\ pc = "wait_users" => LastRequest.kind = "users"
    /\ pc = "wait_update" => LastRequest.kind = "update"
    /\ NumRequests("users") > 0 => r.status # "none"
    /\ (\/ pc \in {"post_update", "wait_update"}
        \/ primary_id.some \/ secondary_id.some
        \/ NumRequests("update") > 0
        \/ failure \in {"IndexError_primary", "IndexError_users"})
           => /\ got_all_users
              /\ NumRequests("users") > 0
              /\ LastPageSeen \/ NumRequests("update") > 0
    /\ (pc = "done" /\ exitCode = 0)
           => /\ NumRequests("oncall") = 1
              /\ NumRequests("users") > 0
              /\ NumRequests("update") = 1

\* C9, witness: a completed run with two directory pages and both persons
\* found.
C9_Witness_TwoPagesDone ==
    /\ pc = "done"
    /\ exitCode = 0
    /\ NumRequests("users") = 2
    /\ Len(users) = 2
    /\ primary_id.some
    /\ secondary_id.some
    /\ primary_id # secondary_id

\* C10, as claimed: a run that ends in failure has sent no update request,
\* and a failed response ends the run.
C10_FailedRunNoWrite ==
    /\ (pc = "done" /\ exitCode # 0) => NumRequests("update") = 0
    /\ r.status = "error" => pc = "done"

\* C10, amended: a run that ends in failure has sent no update request,
\* unless the failure is the response of the update itself, after exactly
\* one update request; a failed response ends the run, so that nothing is
\* sent again.
C10_FailedRunNoWriteBeforeUpdate ==
    /\ (pc = "done" /\ exitCode # 0)
           => \/ NumRequests("update") = 0
              \/ /\ failure = "transport"
                 /\ LastRequest.kind = "update"
                 /\ NumRequests("update") = 1
    /\ r.status = "error" => (pc = "done" /\ exitCode # 0)

\* C10, witness: the second directory page failed in transport, after a
\* first page with a member; the run has ended without an update.
C10_Witness_SecondPageFails ==
    /\ pc = "done"
    /\ exitCode # 0
    /\ failure = "transport"
    /\ r.status = "error"
    /\ NumRequests("users") = 2
    /\ Len(users) = 1
    /\ NumRequests("update") = 0

====
